---- MODULE Spec2Model ----
(***************************************************************************)
(* flashmap: a single-writer / many-reader map over two buffers.           *)
(*                                                                         *)
(* The model follows src/src/core/mod.rs (Core), src/src/core/refcount.rs  *)
(* (RefCount), src/src/read.rs (ReadHandle, ReadGuard) and                 *)
(* src/src/write.rs (WriteHandle, WriteGuard, the operation log).  Every   *)
(* atomic access of the code is one step; memory is sequentially           *)
(* consistent.  The refcounts mutex is held by the writer exactly while    *)
(* wpc = "pub_swap"; the other critical sections (new_reader,              *)
(* release_refcount) are single steps that wait for that.                  *)
(***************************************************************************)
EXTENDS Integers, Sequences, FiniteSets, TLC

\* ------------------------------------------------------------ bounds
WordBits == 4
MaxHandles == 2
MaxGuards == 2
MaxKey == 1
MaxVals == 2
MaxOps == 2
MaxPub == 3

Handles == 1..MaxHandles
Slots == 1..MaxGuards
Keys == 1..MaxKey

\* ------------------------------------------------------------ machine words
Pow2(n) == 2 ^ n
UsizeMod == Pow2(WordBits)
IsizeMin == 0 - Pow2(WordBits - 1)
IsizeMax == Pow2(WordBits - 1) - 1

\* isize arithmetic wraps (two's complement)
WrapIsize(x) == ((x + Pow2(WordBits - 1)) % UsizeMod) - Pow2(WordBits - 1)
\* usize arithmetic wraps
WrapUsize(x) == x % UsizeMod

\* ------------------------------------------------------------ MapIndex
First == 0
Second == 1
other(i) == IF i = First THEN Second ELSE First

\* ------------------------------------------------------------ RefCount
MAP_INDEX_FLAG == Pow2(WordBits - 1)
COUNT_MASK == Pow2(WordBits - 2) - 1
NoRefCount == 0 - 1

RefCount_new_first(read_index) == 0
RefCount_new(read_index) == read_index * Pow2(WordBits - 1)
\* Core::new_reader: the side a new refcount starts on, `writer_map.get().other()`
new_reader_side_same(w) == w
new_reader_side(w) == other(w)
to_map_index(value) == value \div Pow2(WordBits - 1)
\* the test `old_value & (COUNT_MASK + 1) > 0` of increment
increment_aborts(old_value) == (old_value \div (COUNT_MASK + 1)) % 2 = 1
CountOf(value) == value % (COUNT_MASK + 1)

VARIABLES
    residual,     \* Core.residual (AtomicIsize)
    refcounts,    \* Core.refcounts: handle -> RefCount value, NoRefCount when not in the slab
    hst,          \* per read handle: "new" (not yet created), "reg", "gone"
    parker,       \* Core.parker: "None" (nothing registered), "Sync" or "Async"
    token,        \* the writer's wake-up: park token (Thread::unpark) or woken task (Waker::wake)
    writer_map,   \* Core.writer_map
    maps,         \* Core.maps: the two buffers, key -> entry
    replay,       \* Core.replay_on_drop
    operations,   \* WriteHandle.operations
    wpc,          \* the writer's position
    wcall,        \* the call the writer is in: "none", "guard", "sync"
    acc,          \* publish: initial_residual
    pending,      \* publish: refcounts the iteration has not reached
    nops,         \* calls made through the current write guard
    nextVid,      \* next fresh value
    guards,       \* read guards: slot -> [st, h, idx, pre]
    shadow,       \* history: the ordinary map the write-guard calls have built
    hist,         \* history: map contents at the publish boundaries
    bufVer,       \* history: the publish boundary each buffer was published at
    dropped,      \* history: alias families Alias::drop was called on
    reachDrop,    \* history: families dropped while a live guard could reach them
    pubSnap,      \* history: writer_map and side bits when publish took the lock
    evicted,      \* the Evicted values alive: [value, operation]
    leaked,       \* the Leaked values the program holds: [value, handle_uid]
    owned,        \* history: alias families Alias::into_owned was called on
    twice,        \* history: families destroyed a second time
    lazy,         \* history: values passed to drop_lazily
    mismatch,     \* history: a call panicked with LEAKED_VALUE_MISMATCH
    held,         \* per read handle: guards that are never dropped
    coreDropped,  \* Core::drop has run
    aborted       \* the process called abort()

vars == <<residual, refcounts, hst, parker, token, writer_map, maps, replay,
          operations, wpc, wcall, acc, pending, nops, nextVid, guards, shadow, hist,
          bufVer, dropped, reachDrop, pubSnap, evicted, leaked, owned, twice, lazy,
          mismatch, held, coreDropped, aborted>>

\* ------------------------------------------------------------ buffers
NoEntry == [kid |-> 0, vid |-> 0]
EmptyMap == [k \in Keys |-> NoEntry]
Content(m) == [k \in Keys |-> m[k].vid]
\* a lookup that finds every key
Present_always(m, k) == TRUE
Present(m, k) == m[k] # NoEntry
\* the alias families a buffer holds a member of
Families(m) == {<<"k", m[k].kid>> : k \in {x \in Keys : Present(m, x)}}
               \cup {<<"v", m[k].vid>> : k \in {x \in Keys : Present(m, x)}}

NoGuard == [st |-> "none", h |-> 0, idx |-> 0, pre |-> 0]
Live(s) == guards[s].st = "live"
HandleOf(s) == guards[s].h
PubCount == Len(hist) - 1
Hist(n) == hist[n + 1]

\* families some live read guard can reach
Reachable == UNION {Families(maps[guards[s].idx]) : s \in {x \in Slots : Live(x)}}

\* WriteHandle.uid, the first value of NEXT_WRITER_UID
uid == 1
\* the uid of another map's write handle, and a value leaked from that map
ForeignUid == 2
ForeignValue == MaxVals + 1

\* no publish is in progress
NoSnap == [side |-> 0, bits |-> [h \in Handles |-> 0], regs |-> {}]

Init ==
    /\ residual = 0
    /\ refcounts = [h \in Handles |-> IF h = 1 THEN RefCount_new(new_reader_side(Second)) ELSE NoRefCount]
    /\ hst = [h \in Handles |-> IF h = 1 THEN "reg" ELSE "new"]
    /\ parker = "None"
    /\ token = FALSE
    /\ writer_map = Second
    /\ maps = [i \in {First, Second} |-> EmptyMap]
    /\ replay = <<>>
    /\ operations = <<>>
    /\ wpc = "idle"
    /\ wcall = "none"
    /\ acc = 0
    /\ pending = {}
    /\ nops = 0
    /\ nextVid = 1
    /\ guards = [s \in Slots |-> NoGuard]
    /\ shadow = Content(EmptyMap)
    /\ hist = <<Content(EmptyMap)>>
    /\ bufVer = [i \in {First, Second} |-> 0]
    /\ dropped = {}
    /\ reachDrop = {}
    /\ pubSnap = NoSnap
    /\ evicted = {}
    /\ leaked = {[value |-> ForeignValue, handle_uid |-> ForeignUid]}
    /\ owned = {}
    /\ twice = {}
    /\ lazy = {}
    /\ mismatch = FALSE
    /\ held = [h \in Handles |-> 0]
    /\ coreDropped = FALSE
    /\ aborted = FALSE


\* ------------------------------------------------------------ readers

\* the refcounts mutex is free (publish holds it while it iterates)
LockFree == wpc # "pub_swap"

FreeSlots == {s \in Slots : guards[s].st = "none"}
SlotsOf(h) == {s \in Slots : HandleOf(s) = h /\ guards[s].st # "none"}
FirstFree == CHOOSE s \in FreeSlots : \A t \in FreeSlots : s <= t

\* Core::new_reader, called by Clone for ReadHandle on a handle `from`
new_reader(from, h) ==
    /\ ~aborted
    /\ hst[from] = "reg"
    /\ hst[h] = "new"
    /\ \A x \in DOMAIN hst : hst[x] = "new" => h <= x
    /\ LockFree
    /\ refcounts' = [refcounts EXCEPT ![h] = RefCount_new(new_reader_side(writer_map))]
    /\ hst' = [hst EXCEPT ![h] = "reg"]
    /\ UNCHANGED <<residual, parker, token, writer_map, maps, replay, operations, wpc,
                   wcall, acc, pending, nops, nextVid, guards, hist, bufVer, dropped,
                   reachDrop, pubSnap, coreDropped, aborted, shadow,
                   evicted, leaked, owned, twice, lazy, mismatch, held>>

\* Drop for ReadHandle: Core::release_refcount. The borrow rules keep a handle alive
\* until every guard of it has finished its drop.
release_refcount(h) ==
    /\ ~aborted
    /\ hst[h] = "reg"
    /\ SlotsOf(h) = {}
    /\ LockFree
    /\ refcounts' = [refcounts EXCEPT ![h] = NoRefCount]
    /\ hst' = [hst EXCEPT ![h] = "gone"]
    /\ UNCHANGED <<residual, parker, token, writer_map, maps, replay, operations, wpc,
                   wcall, acc, pending, nops, nextVid, guards, hist, bufVer,
                   dropped, reachDrop, pubSnap, coreDropped, aborted, shadow,
                   evicted, leaked, owned, twice, lazy, mismatch, held>>

\* RefCount::increment: the value stored
increment(old_value) == WrapUsize(old_value + 1)
\* RefCount::decrement: the value stored
decrement(old_value) == WrapUsize(old_value - 1)

\* ReadHandle::guard: one fetch_add on the handle's refcount, then the borrow of
\* the buffer the old value names
guard_fetch_add(h) ==
    /\ ~aborted
    /\ hst[h] = "reg"
    /\ FreeSlots # {}
    /\ LET old_value == refcounts[h]
           map_index == to_map_index(old_value)
           s == FirstFree
       IN /\ refcounts' = [refcounts EXCEPT ![h] = increment(old_value)]
          /\ IF increment_aborts(old_value)
             THEN /\ aborted' = TRUE
                  /\ UNCHANGED guards
             ELSE /\ aborted' = FALSE
                  /\ guards' = [guards EXCEPT ![s] =
                         [st |-> "live", h |-> h, idx |-> map_index,
                          pre |-> bufVer[map_index]]]
    /\ UNCHANGED <<residual, hst, parker, token, writer_map, maps, replay, operations,
                   wpc, wcall, acc, pending, nops, nextVid, hist, bufVer, dropped,
                   reachDrop, pubSnap, coreDropped, shadow,
                   evicted, leaked, owned, twice, lazy, mismatch, held>>

\* ReadHandle::guard takes no lock and has no loop: its one step needs nothing of
\* the writer
ReadHandle_guard_locked(h) == LockFree /\ guard_fetch_add(h)
ReadHandle_guard(h) == guard_fetch_add(h)

\* Drop for ReadGuard: `current_reader_map != self.map_index`
must_release_always(current_reader_map, map_index) == TRUE
must_release(current_reader_map, map_index) == current_reader_map # map_index

\* Drop for ReadGuard: the fetch_sub on the refcount
ReadGuard_drop(s) ==
    /\ ~aborted
    /\ guards[s].st = "live"
    /\ LET h == HandleOf(s)
           old_value == refcounts[h]
       IN /\ refcounts' = [refcounts EXCEPT ![h] = decrement(old_value)]
          /\ guards' = [guards EXCEPT ![s] =
                 IF must_release(to_map_index(old_value), guards[s].idx)
                 THEN [@ EXCEPT !.st = "release"]
                 ELSE NoGuard]
    /\ UNCHANGED <<residual, hst, parker, token, writer_map, maps, replay, operations,
                   wpc, wcall, acc, pending, nops, nextVid, hist, bufVer,
                   dropped, reachDrop, pubSnap, coreDropped, aborted, shadow,
                   evicted, leaked, owned, twice, lazy, mismatch, held>>

\* Core::release_residual: `last_residual != isize::MIN + 1` fails
last_reader_early(last_residual) == last_residual = IsizeMin + 2
last_reader_never(last_residual) == FALSE
last_reader_unflagged(last_residual) == last_residual = 1
last_reader(last_residual) == last_residual = IsizeMin + 1

\* Core::release_residual: the fetch_sub on residual
release_residual(s) ==
    /\ ~aborted
    /\ guards[s].st = "release"
    /\ residual' = WrapIsize(residual - 1)
    /\ guards' = [guards EXCEPT ![s] =
           IF last_reader(residual) THEN [@ EXCEPT !.st = "store"] ELSE NoGuard]
    /\ UNCHANGED <<refcounts, hst, parker, token, writer_map, maps, replay, operations,
                   wpc, wcall, acc, pending, nops, nextVid, hist, bufVer,
                   dropped, reachDrop, pubSnap, coreDropped, aborted, shadow,
                   evicted, leaked, owned, twice, lazy, mismatch, held>>

\* Core::release_residual: residual.store(0)
release_residual_store(s) ==
    /\ ~aborted
    /\ guards[s].st = "store"
    /\ residual' = 0
    /\ guards' = [guards EXCEPT ![s].st = "unpark"]
    /\ UNCHANGED <<refcounts, hst, parker, token, writer_map, maps, replay, operations,
                   wpc, wcall, acc, pending, nops, nextVid, hist, bufVer,
                   dropped, reachDrop, pubSnap, coreDropped, aborted, shadow,
                   evicted, leaked, owned, twice, lazy, mismatch, held>>

\* the handle the reader's Parker::unpark reads from the cell: the one the writer
\* registered or, if the writer overwrote the cell during the call (a data race on
\* the UnsafeCell), either that one or a stale one that wakes nobody
unpark_outcomes(st) == IF st = "raced" THEN {"writer", "stale"} ELSE {"writer"}

\* the parker cell is overwritten: the readers that are inside Parker::unpark read a
\* cell that is being written
overwrite(gs) ==
    [s \in Slots |-> IF gs[s].st = "unpark" THEN [gs[s] EXCEPT !.st = "raced"] ELSE gs[s]]

\* Parker::unpark: Thread::unpark makes the writer's token available, AtomicWaker::wake
\* schedules a poll of the writer's task
Parker_unpark(s) ==
    /\ ~aborted
    /\ guards[s].st \in {"unpark", "raced"}
    /\ \E handle \in unpark_outcomes(guards[s].st) :
          token' = (IF parker \in {"Sync", "Async"} /\ handle = "writer" THEN TRUE ELSE token)
    /\ guards' = [guards EXCEPT ![s] = NoGuard]
    /\ UNCHANGED <<residual, refcounts, hst, parker, writer_map, maps, replay,
                   operations, wpc, wcall, acc, pending, nops, nextVid, hist,
                   bufVer, dropped, reachDrop, pubSnap, coreDropped, aborted, shadow,
                   evicted, leaked, owned, twice, lazy, mismatch, held>>


\* ------------------------------------------------------------ operation log

Op(op, k, kid, vid) == [op |-> op, k |-> k, kid |-> kid, vid |-> vid, leaky |-> FALSE]

\* WriteHandle::flush_operations, one iteration of the loop: the buffer after the
\* entry is applied, and the alias families Alias::drop is called on
flush_one_skip_insert(o, m) ==
    CASE o.op = "InsertUnique" -> [map |-> m, drops |-> {}]
      [] o.op = "Replace" ->
           [map |-> [m EXCEPT ![o.k].vid = o.vid],
            drops |-> IF o.leaky THEN {} ELSE {<<"v", m[o.k].vid>>}]
      [] o.op = "Remove" ->
           [map |-> [m EXCEPT ![o.k] = NoEntry],
            drops |-> {<<"k", m[o.k].kid>>}
                      \cup (IF o.leaky THEN {} ELSE {<<"v", m[o.k].vid>>})]
      [] OTHER -> [map |-> m, drops |-> {<<"v", o.vid>>}]
flush_one_remove_forgets(o, m) ==
    CASE o.op = "InsertUnique" ->
           [map |-> [m EXCEPT ![o.k] = [kid |-> o.kid, vid |-> o.vid]], drops |-> {}]
      [] o.op = "Replace" ->
           [map |-> [m EXCEPT ![o.k].vid = o.vid],
            drops |-> IF o.leaky THEN {} ELSE {<<"v", m[o.k].vid>>}]
      [] o.op = "Remove" ->
           [map |-> [m EXCEPT ![o.k] = NoEntry], drops |-> {<<"k", m[o.k].kid>>}]
      [] OTHER -> [map |-> m, drops |-> {<<"v", o.vid>>}]
flush_one_forget_drop(o, m) ==
    CASE o.op = "InsertUnique" ->
           [map |-> [m EXCEPT ![o.k] = [kid |-> o.kid, vid |-> o.vid]], drops |-> {}]
      [] o.op = "Replace" ->
           [map |-> [m EXCEPT ![o.k].vid = o.vid],
            drops |-> IF o.leaky THEN {} ELSE {<<"v", m[o.k].vid>>}]
      [] o.op = "Remove" ->
           [map |-> [m EXCEPT ![o.k] = NoEntry],
            drops |-> {<<"k", m[o.k].kid>>}
                      \cup (IF o.leaky THEN {} ELSE {<<"v", m[o.k].vid>>})]
      [] OTHER -> [map |-> m, drops |-> {}]
flush_one_ignore_leaky(o, m) ==
    CASE o.op = "InsertUnique" ->
           [map |-> [m EXCEPT ![o.k] = [kid |-> o.kid, vid |-> o.vid]], drops |-> {}]
      [] o.op = "Replace" ->
           [map |-> [m EXCEPT ![o.k].vid = o.vid], drops |-> {<<"v", m[o.k].vid>>}]
      [] o.op = "Remove" ->
           [map |-> [m EXCEPT ![o.k] = NoEntry],
            drops |-> {<<"k", m[o.k].kid>>, <<"v", m[o.k].vid>>}]
      [] OTHER -> [map |-> m, drops |-> {<<"v", o.vid>>}]
flush_one(o, m) ==
    CASE o.op = "InsertUnique" ->
           [map |-> [m EXCEPT ![o.k] = [kid |-> o.kid, vid |-> o.vid]], drops |-> {}]
      [] o.op = "Replace" ->
           [map |-> [m EXCEPT ![o.k].vid = o.vid],
            drops |-> IF o.leaky THEN {} ELSE {<<"v", m[o.k].vid>>}]
      [] o.op = "Remove" ->
           [map |-> [m EXCEPT ![o.k] = NoEntry],
            drops |-> {<<"k", m[o.k].kid>>}
                      \cup (IF o.leaky THEN {} ELSE {<<"v", m[o.k].vid>>})]
      [] OTHER -> [map |-> m, drops |-> {<<"v", o.vid>>}]

\* WriteHandle::flush_operations, the whole loop (twice: families the loop calls
\* Alias::drop on more than once)
RECURSIVE flush_operations(_, _)
flush_operations(ops, m) ==
    IF ops = <<>>
    THEN [map |-> m, drops |-> {}, twice |-> {}]
    ELSE LET one == flush_one(Head(ops), m)
             rest == flush_operations(Tail(ops), one.map)
         IN [map |-> rest.map, drops |-> one.drops \cup rest.drops,
             twice |-> rest.twice \cup (one.drops \cap rest.drops)]

\* the precondition of the unchecked operation flush_operations uses for an entry:
\* insert_unique_unchecked needs a vacant key, the unwrap_unchecked after get_mut
\* and after remove_entry an occupied one
op_precondition(o, m) ==
    CASE o.op = "InsertUnique" -> ~Present(m, o.k)
      [] o.op \in {"Replace", "Remove"} -> Present(m, o.k)
      [] OTHER -> TRUE

\* an entry applied without its precondition: the table holds the key twice, or
\* unwrap_unchecked is called on None, which is undefined behaviour. The buffer keeps
\* what it had, loses the key or takes what the entry says, and the drops of the
\* entry happen or do not.
undefined_outcomes(o, m) ==
    LET taken == flush_one(o, m)
    IN {[map |-> mm, drops |-> d] :
           mm \in {m, [m EXCEPT ![o.k] = NoEntry], taken.map},
           d \in {{}, taken.drops}}

\* what one iteration of flush_operations can do
flush_outcomes(o, m) ==
    IF op_precondition(o, m) THEN {flush_one(o, m)} ELSE undefined_outcomes(o, m)

\* every entry of a log meets its precondition when the log is replayed into m
RECURSIVE replay_sound(_, _)
replay_sound(ops, m) ==
    \/ ops = <<>>
    \/ /\ op_precondition(Head(ops), m)
       /\ replay_sound(Tail(ops), flush_one(Head(ops), m).map)

\* what the whole loop of flush_operations can do: if an entry is applied without
\* its precondition, the buffer is left as it was or as the log says, and the drops
\* of the log happen or do not
replay_outcomes(ops, m) ==
    LET taken == flush_operations(ops, m)
    IN IF replay_sound(ops, m)
       THEN {taken}
       ELSE {[map |-> mm, drops |-> d, twice |-> taken.twice \cap d] :
                mm \in {m, taken.map}, d \in {{}, taken.drops}}

\* ------------------------------------------------------------ writer: synchronize

\* where the writer continues when synchronize returns
AfterSync(call) ==
    CASE call = "guard" -> (IF operations = <<>> THEN "guard" ELSE "flush")
      [] call = "reclaim" -> "reclaimer"
      [] OTHER -> "idle"

\* Core::synchronize: `residual != 0` after the first load
must_wait_never(r) == FALSE
must_wait_always(r) == TRUE
must_wait(r) == r # 0

\* Core::synchronize, entered from WriteHandle::guard, WriteHandle::synchronize or
\* WriteHandle::reclaimer: the first load of residual. The call borrows the handle,
\* so the lifetime of every Evicted of the last write guard has ended.
Core_synchronize(call) ==
    /\ ~aborted
    /\ wpc = "idle"
    /\ call = "guard" => PubCount < MaxPub
    /\ IF must_wait(residual)
       THEN /\ wpc' = "sync_reg"
            /\ wcall' = call
       ELSE /\ wpc' = AfterSync(call)
            /\ wcall' = "none"
    /\ evicted' = {}
    /\ UNCHANGED <<residual, refcounts, hst, parker, token, writer_map, maps, replay,
                   operations, acc, pending, nops, nextVid, guards, hist, bufVer,
                   dropped, reachDrop, pubSnap, coreDropped, aborted, shadow,
                   leaked, owned, twice, lazy, mismatch, held>>

\* Core::synchronize: Parker::write_sync(thread::current())
Parker_write_sync ==
    /\ ~aborted
    /\ wpc = "sync_reg"
    /\ parker' = "Sync"
    /\ guards' = overwrite(guards)
    /\ wpc' = "sync_add"
    /\ UNCHANGED <<residual, refcounts, hst, token, writer_map, maps, replay, operations,
                   wcall, acc, pending, nops, nextVid, hist, bufVer,
                   dropped, reachDrop, pubSnap, coreDropped, aborted, shadow,
                   evicted, leaked, owned, twice, lazy, mismatch, held>>

\* Core::synchronize: `latest_residual != 0` after the fetch_add
must_park_always(latest_residual) == TRUE
must_park(latest_residual) == latest_residual # 0

\* Core::synchronize: residual.fetch_add(isize::MIN)
synchronize_fetch_add ==
    /\ ~aborted
    /\ wpc = "sync_add"
    /\ residual' = WrapIsize(residual + IsizeMin)
    /\ wpc' = (IF must_park(residual) THEN "park" ELSE "sync_store")
    /\ UNCHANGED <<refcounts, hst, parker, token, writer_map, maps, replay, operations,
                   wcall, acc, pending, nops, nextVid, guards, hist, bufVer,
                   dropped, reachDrop, pubSnap, coreDropped, aborted, shadow,
                   evicted, leaked, owned, twice, lazy, mismatch, held>>

\* Core::synchronize: the else branch, residual.store(0)
synchronize_store ==
    /\ ~aborted
    /\ wpc = "sync_store"
    /\ residual' = 0
    /\ wpc' = AfterSync(wcall)
    /\ wcall' = "none"
    /\ UNCHANGED <<refcounts, hst, parker, token, writer_map, maps, replay, operations,
                   acc, pending, nops, nextVid, guards, hist, bufVer, dropped,
                   reachDrop, pubSnap, coreDropped, aborted, shadow,
                   evicted, leaked, owned, twice, lazy, mismatch, held>>

\* thread::park returns because the token is available, and consumes it
park_wake ==
    /\ ~aborted
    /\ wpc = "park"
    /\ token
    /\ token' = FALSE
    /\ wpc' = "park_load"
    /\ UNCHANGED <<residual, refcounts, hst, parker, writer_map, maps, replay, operations,
                   wcall, acc, pending, nops, nextVid, guards, hist, bufVer,
                   dropped, reachDrop, pubSnap, coreDropped, aborted, shadow,
                   evicted, leaked, owned, twice, lazy, mismatch, held>>

\* thread::park returns spuriously
park_spurious ==
    /\ ~aborted
    /\ wpc = "park"
    /\ ~token
    /\ wpc' = "park_load"
    /\ UNCHANGED <<residual, refcounts, hst, parker, token, writer_map, maps, replay,
                   operations, wcall, acc, pending, nops, nextVid, guards, hist,
                   bufVer, dropped, reachDrop, pubSnap, coreDropped, aborted, shadow,
                   evicted, leaked, owned, twice, lazy, mismatch, held>>

\* Core::synchronize: `residual == 0` ends the park loop
park_done_nonpositive(r) == r <= 0
park_done(r) == r = 0

\* Core::synchronize: the load of residual after thread::park
park_load ==
    /\ ~aborted
    /\ wpc = "park_load"
    /\ IF park_done(residual)
       THEN /\ wpc' = AfterSync(wcall)
            /\ wcall' = "none"
       ELSE /\ wpc' = "park"
            /\ UNCHANGED wcall
    /\ UNCHANGED <<residual, refcounts, hst, parker, token, writer_map, maps, replay,
                   operations, acc, pending, nops, nextVid, guards, hist, bufVer,
                   dropped, reachDrop, pubSnap, coreDropped, aborted, shadow,
                   evicted, leaked, owned, twice, lazy, mismatch, held>>

\* ------------------------------------------------------------ writer: the guard

\* WriteHandle::guard_unchecked: one iteration of flush_operations on the writer's map
guard_unchecked_flush ==
    /\ ~aborted
    /\ wpc = "flush"
    /\ \E one \in flush_outcomes(Head(operations), maps[writer_map]) :
          /\ maps' = [maps EXCEPT ![writer_map] = one.map]
          /\ dropped' = dropped \cup one.drops
          /\ reachDrop' = reachDrop \cup (one.drops \cap Reachable)
          /\ twice' = twice \cup (one.drops \cap (dropped \cup owned))
    /\ operations' = Tail(operations)
    /\ wpc' = (IF Tail(operations) = <<>> THEN "guard" ELSE "flush")
    /\ UNCHANGED <<residual, refcounts, hst, parker, token, writer_map, replay, wcall,
                   acc, pending, nops, nextVid, guards, hist, bufVer, pubSnap,
                   coreDropped, aborted, shadow,
                   evicted, leaked, owned, lazy, mismatch, held>>

WriterFrame == <<residual, refcounts, hst, parker, token, writer_map, replay, wpc, wcall,
                 acc, pending, guards, hist, bufVer, dropped, reachDrop,
                 pubSnap, coreDropped, aborted, leaked, owned, twice, lazy, mismatch, held>>

\* the value a call evicts from the writer's buffer; 0 stands for None
None == 0
insert_returns(m, key) == IF Present(m, key) THEN m[key].vid ELSE None
replace_returns_none(m, key) == None
replace_returns(m, key) == IF Present(m, key) THEN m[key].vid ELSE None
remove_returns(m, key) == IF Present(m, key) THEN m[key].vid ELSE None

\* an Evicted that names the first entry of the log
Evicted_new_first(value, ops) == [value |-> value, operation |-> 0]
\* Evicted::new: the value and the index of the last entry of the log
Evicted_new(value, ops) == [value |-> value, operation |-> Len(ops) - 1]
\* `evicted.map(|value| Evicted::new(self, value))`
Returned(value, ops) == IF value = None THEN {} ELSE {Evicted_new(value, ops)}

\* WriteGuard::insert
WriteGuard_insert(key) ==
    /\ ~aborted
    /\ wpc = "guard"
    /\ nops < MaxOps
    /\ nextVid <= MaxVals
    /\ LET m == maps[writer_map]
       IN /\ IF ~Present(m, key)
             THEN /\ maps' = [maps EXCEPT ![writer_map][key] = [kid |-> nextVid, vid |-> nextVid]]
                  /\ operations' = Append(operations, Op("InsertUnique", key, nextVid, nextVid))
             ELSE /\ maps' = [maps EXCEPT ![writer_map][key].vid = nextVid]
                  /\ operations' = Append(operations, Op("Replace", key, 0, nextVid))
          /\ evicted' = evicted \cup Returned(insert_returns(m, key), operations')
    /\ shadow' = [shadow EXCEPT ![key] = nextVid]
    /\ nextVid' = nextVid + 1
    /\ nops' = nops + 1
    /\ UNCHANGED WriterFrame

\* WriteGuard::replace
WriteGuard_replace(key) ==
    /\ ~aborted
    /\ wpc = "guard"
    /\ nops < MaxOps
    /\ nextVid <= MaxVals
    /\ LET m == maps[writer_map]
       IN /\ IF Present(m, key)
             THEN /\ maps' = [maps EXCEPT ![writer_map][key].vid = nextVid]
                  /\ operations' = Append(operations, Op("Replace", key, 0, nextVid))
                  /\ nextVid' = nextVid + 1
             ELSE UNCHANGED <<maps, operations, nextVid>>
          /\ evicted' = evicted \cup Returned(replace_returns(m, key), operations')
    /\ shadow' = (IF shadow[key] # None THEN [shadow EXCEPT ![key] = nextVid] ELSE shadow)
    /\ nops' = nops + 1
    /\ UNCHANGED WriterFrame

\* WriteGuard::remove
WriteGuard_remove(key) ==
    /\ ~aborted
    /\ wpc = "guard"
    /\ nops < MaxOps
    /\ LET m == maps[writer_map]
       IN /\ IF Present(m, key)
             THEN /\ maps' = [maps EXCEPT ![writer_map][key] = NoEntry]
                  /\ operations' = Append(operations, Op("Remove", key, 0, 0))
             ELSE UNCHANGED <<maps, operations>>
          /\ evicted' = evicted \cup Returned(remove_returns(m, key), operations')
    /\ shadow' = [shadow EXCEPT ![key] = None]
    /\ nops' = nops + 1
    /\ UNCHANGED nextVid
    /\ UNCHANGED WriterFrame


\* ------------------------------------------------------------ writer: publish

Registered == {h \in DOMAIN hst : hst[h] = "reg"}

\* RefCount::swap_maps: the value stored
swap_maps_keep(old_value) == old_value
swap_maps(old_value) == WrapUsize(old_value + MAP_INDEX_FLAG)
\* RefCount::swap_maps: the value returned
swap_maps_count_zero(old_value) == 0
swap_maps_count(old_value) == old_value % (COUNT_MASK + 1)

\* Drop for WriteGuard: Core::publish up to and including the flip of writer_map
\* under the refcounts lock
WriteGuard_drop ==
    /\ ~aborted
    /\ wpc = "guard"
    /\ writer_map' = other(writer_map)
    /\ acc' = 0
    /\ pending' = Registered
    /\ wpc' = (IF Registered = {} THEN "pub_add" ELSE "pub_swap")
    /\ hist' = Append(hist, shadow)
    /\ bufVer' = [bufVer EXCEPT ![writer_map] = PubCount + 1]
    /\ pubSnap' = [side |-> writer_map,
                   bits |-> [h \in DOMAIN hst |->
                               IF h \in Registered THEN to_map_index(refcounts[h]) ELSE 0],
                   regs |-> Registered]
    /\ nops' = 0
    /\ UNCHANGED <<residual, refcounts, hst, parker, token, maps, replay, operations,
                   wcall, nextVid, guards, dropped, reachDrop, coreDropped, aborted, shadow,
                   evicted, leaked, owned, twice, lazy, mismatch, held>>

\* `initial_residual += ...` leaves the range of isize
add_overflows(sum) == sum > IsizeMax

\* Core::publish: one iteration of the loop over the refcounts; the lock is
\* released after the last one. The addition wraps and the test `< 0` follows, or,
\* in a build with overflow checks, the addition panics and publish unwinds.
publish_swap(h) ==
    /\ ~aborted
    /\ wpc = "pub_swap"
    /\ h \in pending
    /\ LET old_value == refcounts[h]
           sum == acc + swap_maps_count(old_value)
           initial_residual == WrapIsize(sum)
       IN /\ refcounts' = [refcounts EXCEPT ![h] = swap_maps(old_value)]
          /\ \/ /\ acc' = initial_residual
                /\ aborted' = (initial_residual < 0)
                /\ wpc' = (IF pending = {h} THEN "pub_add" ELSE "pub_swap")
             \/ /\ add_overflows(sum)
                /\ acc' = acc
                /\ aborted' = FALSE
                /\ wpc' = "panicked"
    /\ pending' = pending \ {h}
    /\ UNCHANGED <<residual, hst, parker, token, writer_map, maps, replay, operations,
                   wcall, nops, nextVid, guards, hist, bufVer, dropped,
                   reachDrop, pubSnap, coreDropped, shadow,
                   evicted, leaked, owned, twice, lazy, mismatch, held>>

\* Core::publish: residual.fetch_add(initial_residual)
publish_fetch_add ==
    /\ ~aborted
    /\ wpc = "pub_add"
    /\ residual' = WrapIsize(residual + acc)
    /\ wpc' = "idle"
    /\ acc' = 0
    /\ pubSnap' = NoSnap
    /\ UNCHANGED <<refcounts, hst, parker, token, writer_map, maps, replay, operations,
                   wcall, pending, nops, nextVid, guards, hist, bufVer, dropped,
                   reachDrop, coreDropped, aborted, shadow,
                   evicted, leaked, owned, twice, lazy, mismatch, held>>

\* ------------------------------------------------------------ leaked values

\* Operation::make_leaky
make_leaky_not(o) == o
make_leaky(o) == [o EXCEPT !.leaky = TRUE]

\* Evicted::leak: make_leaky on the log entry the Evicted names; the Leaked carries
\* the uid of the handle. An Evicted is used by the writer's thread, between its
\* calls.
Evicted_leak(e) ==
    /\ ~aborted
    /\ wpc \in {"guard", "idle"}
    /\ e \in evicted
    /\ operations' = [operations EXCEPT ![e.operation + 1] = make_leaky(@)]
    /\ evicted' = evicted \ {e}
    /\ leaked' = leaked \cup {[value |-> e.value, handle_uid |-> uid]}
    /\ UNCHANGED <<residual, refcounts, hst, parker, token, writer_map, maps, replay, wpc,
                   wcall, acc, pending, nops, nextVid, guards, shadow, hist, bufVer,
                   dropped, reachDrop, pubSnap, owned, twice, lazy, mismatch, held,
                   coreDropped, aborted>>

\* `uid == leaked.handle_uid` of the two assertions
uid_matches_any(a, b) == TRUE
uid_matches(a, b) == a = b

\* the closure of WriteHandle::reclaimer_unchecked, called on a Leaked: the
\* assertion, then Alias::into_owned
reclaimer_unchecked(l) ==
    /\ ~aborted
    /\ wpc = "reclaimer"
    /\ l \in leaked
    /\ leaked' = leaked \ {l}
    /\ IF uid_matches(uid, l.handle_uid)
       THEN /\ owned' = owned \cup {<<"v", l.value>>}
            /\ twice' = twice \cup ({<<"v", l.value>>} \cap (dropped \cup owned))
            /\ UNCHANGED mismatch
       ELSE /\ mismatch' = TRUE
            /\ UNCHANGED <<owned, twice>>
    /\ UNCHANGED <<residual, refcounts, hst, parker, token, writer_map, maps, replay,
                   operations, wpc, wcall, acc, pending, nops, nextVid, guards, shadow,
                   hist, bufVer, dropped, reachDrop, pubSnap, evicted, lazy, held,
                   coreDropped, aborted>>

\* the closure returned by WriteHandle::reclaimer is dropped (at once in reclaim_one)
reclaimer_drop ==
    /\ ~aborted
    /\ wpc = "reclaimer"
    /\ wpc' = "idle"
    /\ UNCHANGED <<residual, refcounts, hst, parker, token, writer_map, maps, replay,
                   operations, wcall, acc, pending, nops, nextVid, guards, shadow, hist,
                   bufVer, dropped, reachDrop, pubSnap, evicted, leaked, owned, twice,
                   lazy, mismatch, held, coreDropped, aborted>>

\* WriteGuard::drop_lazily: the assertion, then the push of a Drop entry
WriteGuard_drop_lazily(l) ==
    /\ ~aborted
    /\ wpc = "guard"
    /\ nops < MaxOps
    /\ l \in leaked
    /\ leaked' = leaked \ {l}
    /\ IF uid_matches(uid, l.handle_uid)
       THEN /\ operations' = Append(operations, Op("Drop", 0, 0, l.value))
            /\ lazy' = lazy \cup {l.value}
            /\ UNCHANGED mismatch
       ELSE /\ mismatch' = TRUE
            /\ UNCHANGED <<operations, lazy>>
    /\ nops' = nops + 1
    /\ UNCHANGED <<residual, refcounts, hst, parker, token, writer_map, maps, replay, wpc,
                   wcall, acc, pending, nextVid, guards, shadow, hist, bufVer, dropped,
                   reachDrop, pubSnap, evicted, owned, twice, held, coreDropped, aborted>>

\* ------------------------------------------------------------ destruction

\* Drop for WriteHandle: Core::replay_on_drop takes the operation log
WriteHandle_drop ==
    /\ ~aborted
    /\ wpc = "idle"
    /\ replay' = operations
    /\ operations' = <<>>
    /\ wpc' = "dropped"
    /\ evicted' = {}
    /\ UNCHANGED <<residual, refcounts, hst, parker, token, writer_map, maps, wcall, acc,
                   pending, nops, nextVid, guards, hist, bufVer, dropped,
                   reachDrop, pubSnap, coreDropped, aborted, shadow,
                   leaked, owned, twice, lazy, mismatch, held>>

\* Drop for Core: runs when the write handle and every read handle are gone
Core_drop ==
    /\ ~aborted
    /\ wpc = "dropped"
    /\ Registered = {}
    /\ ~coreDropped
    /\ \E flushed \in replay_outcomes(replay, maps[writer_map]) :
       LET drained == Families(maps[other(writer_map)])
       IN /\ maps' = [maps EXCEPT ![writer_map] = flushed.map,
                                  ![other(writer_map)] = EmptyMap]
          /\ dropped' = dropped \cup flushed.drops \cup drained
          /\ reachDrop' = reachDrop \cup ((flushed.drops \cup drained) \cap Reachable)
          /\ twice' = twice \cup flushed.twice \cup (flushed.drops \cap drained)
                         \cup ((flushed.drops \cup drained) \cap (dropped \cup owned))
    /\ replay' = <<>>
    /\ coreDropped' = TRUE
    /\ UNCHANGED <<residual, refcounts, hst, parker, token, writer_map, operations, wpc,
                   wcall, acc, pending, nops, nextVid, guards, hist, bufVer,
                   pubSnap, aborted, shadow,
                   evicted, leaked, owned, lazy, mismatch, held>>

\* ------------------------------------------------------------ specification

Next ==
    \/ \E from \in Handles, h \in Handles : new_reader(from, h)
    \/ \E h \in Handles : release_refcount(h)
    \/ \E h \in Handles : ReadHandle_guard(h)
    \/ \E s \in Slots : ReadGuard_drop(s)
    \/ \E s \in Slots : release_residual(s)
    \/ \E s \in Slots : release_residual_store(s)
    \/ \E s \in Slots : Parker_unpark(s)
    \/ \E call \in {"guard", "sync"} : Core_synchronize(call)
    \/ Parker_write_sync
    \/ synchronize_fetch_add
    \/ synchronize_store
    \/ park_wake
    \/ park_spurious
    \/ park_load
    \/ guard_unchecked_flush
    \/ \E key \in Keys : WriteGuard_insert(key)
    \/ \E key \in Keys : WriteGuard_replace(key)
    \/ \E key \in Keys : WriteGuard_remove(key)
    \/ WriteGuard_drop
    \/ \E h \in Handles : publish_swap(h)
    \/ publish_fetch_add
    \/ WriteHandle_drop
    \/ Core_drop

Spec == Init /\ [][Next]_vars


\* A program with one read handle that also leaks evicted values, reclaims them and
\* drops them lazily
LeakNext ==
    \/ \E h \in Handles : release_refcount(h)
    \/ \E h \in Handles : ReadHandle_guard(h)
    \/ \E s \in Slots : ReadGuard_drop(s)
    \/ \E s \in Slots : release_residual(s)
    \/ \E s \in Slots : release_residual_store(s)
    \/ \E s \in Slots : Parker_unpark(s)
    \/ \E call \in {"guard", "reclaim"} : Core_synchronize(call)
    \/ Parker_write_sync
    \/ synchronize_fetch_add
    \/ synchronize_store
    \/ park_wake
    \/ park_spurious
    \/ park_load
    \/ guard_unchecked_flush
    \/ \E key \in Keys : WriteGuard_insert(key)
    \/ \E key \in Keys : WriteGuard_remove(key)
    \/ \E e \in evicted : Evicted_leak(e)
    \/ \E l \in leaked : reclaimer_unchecked(l)
    \/ reclaimer_drop
    \/ \E l \in leaked : WriteGuard_drop_lazily(l)
    \/ WriteGuard_drop
    \/ \E h \in Handles : publish_swap(h)
    \/ publish_fetch_add
    \/ WriteHandle_drop
    \/ Core_drop

LeakSpec == Init /\ [][LeakNext]_vars


\* ------------------------------------------------------------ properties

LiveSlots == {s \in Slots : Live(s)}
\* what a read guard sees
View(s) == Content(maps[guards[s].idx])
Boundaries == {Hist(n) : n \in 0..PubCount}
\* the writer is replaying the log or holds a write guard
Mutating == wpc \in {"flush", "guard"}

\* C1: the contents visible through a live read guard equal the map at some publish
\* boundary (the empty map, or the effect of the first n published write guards);
\* a guard never sees part of the mutations of one write guard.
C1_ViewIsPublishBoundary ==
    \A s \in LiveSlots : View(s) \in Boundaries

\* C1 witness: a read guard is alive and sees a published, non-empty map while the
\* writer's buffer holds a state that is no publish boundary
C1_Witness ==
    /\ wpc = "guard"
    /\ Content(maps[writer_map]) \notin Boundaries
    /\ \E s \in LiveSlots : View(s) # Content(EmptyMap)

\* C2: while the writer mutates a buffer (log replay or write guard), no live read
\* guard pins that buffer.
C2_NoGuardOnWriterBuffer ==
    Mutating => \A s \in LiveSlots : guards[s].idx # writer_map

\* C2 witness: the log is being replayed while a read guard is alive
C2_Witness ==
    /\ wpc = "flush"
    /\ LiveSlots # {}

\* C3: no Alias::drop (log replay or Core drop) hits an alias family that a live
\* read guard's buffer contains.
C3_NoDropOfReachable ==
    reachDrop = {}

\* C3 witness: the replay has dropped a value while a read guard is alive
C3_Witness ==
    /\ Mutating
    /\ \E f \in dropped : f[1] = "v"
    /\ LiveSlots # {}


\* the publish prefix the next guard of handle h will observe
NextPrefix(h) == bufVer[to_map_index(refcounts[h])]
\* guard s was acquired in this step, from handle h
Acquired(s, h) == guards[s].st = "none" /\ guards'[s].st = "live" /\ guards'[s].h = h

\* C4: for one read handle, a guard acquired later observes a publish prefix at
\* least as long as any guard acquired earlier, alive or not: the prefix a handle
\* hands to its guards never decreases, and every guard gets the prefix its handle
\* stood at, which is the boundary its view shows.
C4_PrefixMonotonicPerHandle ==
    [][/\ \A h \in Handles :
             (hst[h] = "reg" /\ hst'[h] = "reg") => NextPrefix(h)' >= NextPrefix(h)
       /\ \A s \in Slots, h \in Handles :
             Acquired(s, h) => /\ guards'[s].pre = NextPrefix(h)
                               /\ View(s)' = Hist(guards'[s].pre)
                               /\ \A t \in Slots : guards[t].h = h => guards'[s].pre >= guards[t].pre
      ]_vars

\* C4 witness: two live guards of one handle, the later one on a longer prefix
C4_Witness ==
    \E s, t \in LiveSlots :
        /\ guards[s].h = guards[t].h
        /\ guards[s].pre < guards[t].pre
        /\ View(s) # View(t)

\* C5: the contents visible through one read guard never change while it is alive,
\* also across mutation and publish by the writer; it keeps the snapshot it was
\* acquired on.
C5_ViewStable ==
    [][\A s \in Slots :
          (Live(s) /\ Live(s)') => /\ View(s)' = View(s)
                                   /\ View(s)' = Hist(guards[s].pre)
      ]_vars

\* C5 witness: a guard that was alive at the last publish still shows the
\* pre-publish snapshot, which differs from the published one
C5_Witness ==
    /\ wpc = "idle"
    /\ \E s \in LiveSlots : /\ guards[s].pre < PubCount
                           /\ View(s) = Hist(guards[s].pre)
                           /\ View(s) # Hist(PubCount)

\* C6: every live read guard observes the state of the latest publish or the state
\* immediately before it (a publish counts from its flip of writer_map): no second
\* publish happens while a guard that was alive at the previous one is alive.
C6_LagAtMostOnePublish ==
    \A s \in LiveSlots :
        /\ guards[s].pre \in {PubCount - 1, PubCount}
        /\ View(s) = Hist(guards[s].pre)

\* C6 witness: after the second publish the writer waits in synchronize for a guard
\* that lags by one publish
C6_Witness ==
    /\ wpc = "park"
    /\ PubCount >= 2
    /\ \E s \in LiveSlots : guards[s].pre = PubCount - 1

\* C7: residual = 0 from the return of synchronize to the start of the next publish
\* (log replay and lifetime of the write guard), so the debug assertion at the start
\* of publish holds.
C7_ResidualZeroInCriticalSection ==
    Mutating => residual = 0

\* C7 witness: the writer holds a write guard after it had to wait for readers, and
\* read guards are alive
C7_Witness ==
    /\ wpc = "guard"
    /\ parker = "Sync"
    /\ LiveSlots # {}
    /\ PubCount >= 1


\* ------------------------------------------------------------ fairness

\* the writer is inside Core::synchronize
InSynchronize == wpc \in {"sync_reg", "sync_add", "sync_store", "park", "park_load"}

\* Fair scheduling of the threads: the writer takes its next step in synchronize
\* (thread::park returns when the token is there; a spurious return is possible but
\* never promised), and a reader finishes what it started: each live guard is
\* dropped, and each drop runs to its end.
Fairness ==
    /\ WF_vars(Parker_write_sync)
    /\ WF_vars(synchronize_fetch_add)
    /\ WF_vars(synchronize_store)
    /\ WF_vars(park_wake)
    /\ WF_vars(park_load)
    /\ \A s \in Slots : /\ WF_vars(ReadGuard_drop(s))
                        /\ WF_vars(release_residual(s))
                        /\ WF_vars(release_residual_store(s))
                        /\ WF_vars(Parker_unpark(s))

FairSpec == Spec /\ Fairness

\* C8: under fair scheduling, with every read guard eventually dropped, a writer
\* inside synchronize eventually returns from it: the wake-up of the last residual
\* reader is not lost, in any order of fetch_add(isize::MIN), park, fetch_sub and
\* unpark.
C8_SynchronizeReturns ==
    InSynchronize ~> ~InSynchronize

\* C8 witness: the writer is parked, without a token, while the last residual reader
\* is between its fetch_sub and its unpark
C8_Witness ==
    /\ wpc = "park"
    /\ ~token
    /\ \E s \in Slots : guards[s].st \in {"store", "unpark"}


\* how far the drop of a guard has come
Rank(st) ==
    CASE st = "live" -> 1
      [] st = "release" -> 2
      [] st = "store" -> 3
      [] st = "unpark" -> 4
      [] st = "raced" -> 5
      [] OTHER -> 6

\* the next step of every reader is enabled
ReadersEnabled ==
    /\ \A h \in Registered : FreeSlots # {} => ENABLED ReadHandle_guard(h)
    /\ \A s \in Slots :
          /\ guards[s].st = "live" => ENABLED ReadGuard_drop(s)
          /\ guards[s].st = "release" => ENABLED release_residual(s)
          /\ guards[s].st = "store" => ENABLED release_residual_store(s)
          /\ guards[s].st \in {"unpark", "raced"} => ENABLED Parker_unpark(s)

\* C9: acquiring and dropping a read guard never waits on the writer: wherever the
\* writer is (idle, in a write guard, inside publish with the refcounts lock,
\* parked), guard() and each step of a guard's drop are enabled, and a drop ends
\* after at most four steps of the reader (no step repeats).
C9_ReadPathWaitFree ==
    /\ [](~aborted => ReadersEnabled)
    /\ [][\A s \in Slots :
             (guards[s].st # "none" /\ guards'[s] # guards[s])
                 => Rank(guards'[s].st) > Rank(guards[s].st)]_vars

\* C9 witness: the writer holds the refcounts lock inside publish while a guard is
\* alive and another one can be acquired
C9_Witness ==
    /\ wpc = "pub_swap"
    /\ LiveSlots # {}
    /\ FreeSlots # {}


SideBit(h) == to_map_index(refcounts[h])

\* inside publish: the side bits flipped so far are those the loop has passed, and
\* every step of publish is enabled
PublishProgress ==
    /\ wpc \in {"pub_swap", "pub_add"} =>
          /\ writer_map = other(pubSnap.side)
          /\ \A h \in pubSnap.regs \cap Registered :
                SideBit(h) = (IF wpc = "pub_swap" /\ h \in pending
                              THEN pubSnap.bits[h]
                              ELSE other(pubSnap.bits[h]))
    /\ wpc = "guard" => ENABLED WriteGuard_drop
    /\ wpc = "pub_swap" => pending # {} /\ \A h \in pending : ENABLED publish_swap(h)
    /\ wpc = "pub_add" => pending = {} /\ ENABLED publish_fetch_add

\* C10: every drop of a write guard performs exactly one publish, with or without
\* mutations: writer_map flips once, in the step that ends the guard, and the side
\* bit of each registered refcount flips once, in the loop of that publish; no step
\* of the publish waits for a read guard.
C10_GuardDropPublishesOnce ==
    /\ [](~aborted => PublishProgress)
    /\ [][/\ (wpc = "guard" /\ wpc' # "guard") =>
                (PubCount' = PubCount + 1 /\ writer_map' = other(writer_map))
          /\ (PubCount' # PubCount \/ writer_map' # writer_map) => wpc = "guard"
          /\ \A h \in Handles :
                (hst[h] = "reg" /\ hst'[h] = "reg" /\ SideBit(h)' # SideBit(h))
                    => (wpc = "pub_swap" /\ h \in pending /\ h \notin pending')
         ]_vars

\* C10 witness: a write guard that made no mutation has been dropped and its
\* publish has flipped every refcount, while a read guard is alive
C10_Witness ==
    /\ wpc = "pub_add"
    /\ operations = <<>>
    /\ pubSnap.regs # {}
    /\ LiveSlots # {}


\* ------------------------------------------------------------ alias families

\* families a destructive operation (Alias::drop, Alias::into_owned) was executed on
Destroyed == dropped \cup owned
ValueFamily(v) == <<"v", v>>

\* C11: over the whole life of the map at most one destructive operation (Alias::drop
\* or Alias::into_owned) is executed on an alias family, and afterwards no member
\* of the family can be read: not through a read guard, not through the write
\* guard, not through an Evicted or a Leaked.
C11_OneDestructiveOpPerFamily ==
    /\ twice = {}
    /\ dropped \cap owned = {}
    /\ Reachable \cap Destroyed = {}
    /\ wpc = "guard" => Families(maps[writer_map]) \cap Destroyed = {}
    /\ \A e \in evicted : ValueFamily(e.value) \notin Destroyed
    /\ \A l \in leaked : ValueFamily(l.value) \notin Destroyed

\* C11 witness: the core was destroyed after one value was reclaimed and another
\* one was dropped
C11_Witness ==
    /\ coreDropped
    /\ owned # {}
    /\ \E f \in dropped : f[1] = "v"


\* ------------------------------------------------------------ the map as a map

\* the step is a call of insert, replace or remove on key
WriteCall(key) ==
    WriteGuard_insert(key) \/ WriteGuard_replace(key) \/ WriteGuard_remove(key)

\* C12: the calls of insert, replace and remove, over any number of write guards,
\* behave as on one ordinary map (shadow): each call returns what the ordinary map
\* holds for the key (None, or the evicted value), the write guard reads the
\* ordinary map, and a read guard acquired after the last publish reads the
\* ordinary map as it stood at that publish.
C12_RefinesOrdinaryMap ==
    /\ [](wpc = "guard" => Content(maps[writer_map]) = shadow)
    /\ [](wpc # "guard" => shadow = Hist(PubCount))
    /\ [](\A s \in LiveSlots : guards[s].pre = PubCount => View(s) = Hist(PubCount))
    /\ [][\A key \in Keys :
             WriteCall(key) => evicted' = evicted \cup Returned(shadow[key], operations')
         ]_vars

\* C12 witness: in the third write guard a call has returned an evicted value while
\* a read guard acquired after the last publish sees a non-empty map
C12_Witness ==
    /\ wpc = "guard"
    /\ PubCount >= 2
    /\ evicted # {}
    /\ \E s \in LiveSlots : guards[s].pre = PubCount /\ View(s) # Content(EmptyMap)

\* the last publish has ended
AfterPublish == wpc \notin {"pub_swap", "pub_add"}

\* C13: a value the last dropped write guard left under a key (insert(k, v), no
\* later replace or remove of k) is what every guard acquired afterwards gets for
\* k: a read guard on the published buffer, and the next write guard on the other
\* buffer, after the log replay.
C13_InsertVisibleAfterPublish ==
    [][/\ \A s \in Slots, h \in Handles, k \in Keys :
             (Acquired(s, h) /\ AfterPublish /\ Hist(PubCount)[k] # None)
                 => View(s)'[k] = Hist(PubCount)[k]
       /\ \A k \in Keys :
             (wpc # "guard" /\ wpc' = "guard" /\ Hist(PubCount)[k] # None)
                 => maps'[writer_map][k].vid = Hist(PubCount)[k]
      ]_vars

\* C13 witness: a write guard was acquired on the buffer that got the value by the
\* log replay, and a read guard acquired after the publish sees the same value
C13_Witness ==
    /\ wpc = "guard"
    /\ nops = 0
    /\ bufVer[writer_map] < PubCount
    /\ \E k \in Keys :
          /\ maps[writer_map][k].vid # None
          /\ \E s \in LiveSlots : /\ guards[s].pre = PubCount
                                  /\ View(s)[k] = maps[writer_map][k].vid

\* the values created so far
Created == 1..(nextVid - 1)
\* families a buffer or the log still holds
InUse ==
    Families(maps[First]) \cup Families(maps[Second])
        \cup {ValueFamily(operations[i].vid) : i \in 1..Len(operations)}

\* C14: remove(k) of an absent key (a second remove) returns None and logs nothing;
\* a removed value is dropped once, never twice: the next log replay drops it if
\* the core is not destroyed before, and the destruction of the core drops what
\* the replays have not.
C14_RemoveIdempotent ==
    /\ [][\A key \in Keys :
             (WriteGuard_remove(key) /\ shadow[key] = None)
                 => (operations' = operations /\ evicted' = evicted /\ maps' = maps)
         ]_vars
    /\ [](twice = {})
    /\ [](wpc = "guard" =>
             \A v \in Created : ValueFamily(v) \notin InUse => ValueFamily(v) \in dropped)
    /\ [](coreDropped => \A v \in Created : ValueFamily(v) \in dropped)

\* C14 witness: after two publishes a write guard has called remove on the removed
\* key: the map is empty, nothing was logged, and the removed value is dropped
C14_Witness ==
    /\ wpc = "guard"
    /\ PubCount >= 2
    /\ nops >= 1
    /\ operations = <<>>
    /\ shadow = Content(EmptyMap)
    /\ \E v \in Created : ValueFamily(v) \in dropped


\* ------------------------------------------------------------ leaked values: properties

\* the Leaked values of this map the program holds
OwnLeaked == {l \in leaked : l.handle_uid = uid}
LeakedFamilies == {ValueFamily(l.value) : l \in OwnLeaked}

\* C15: the implementation never drops a value that was leaked: while its Leaked is
\* held the value is neither dropped (log replay, Core drop) nor owned; it becomes
\* owned only in a call of the reclaimer closure on its Leaked, and it is dropped
\* only after drop_lazily was called on its Leaked.
C15_LeakedNotDroppedByMap ==
    /\ [](LeakedFamilies \cap Destroyed = {})
    /\ [][/\ \A f \in dropped' \ dropped : f \notin LeakedFamilies \cup owned
          /\ \A f \in owned' \ owned : wpc = "reclaimer" /\ f \in LeakedFamilies
          /\ \A f \in LeakedFamilies \ LeakedFamilies' :
                \/ wpc = "reclaimer" /\ f \in owned'
                \/ wpc = "guard" /\ f[2] \in lazy' /\ f \notin dropped'
         ]_vars

\* C15 witness: the core was destroyed while a Leaked of a value the map held is
\* still there: both buffers and the log are gone, the value is not dropped
C15_Witness ==
    /\ coreDropped
    /\ OwnLeaked # {}
    /\ dropped # {}

\* C16: when the reclaimer closure takes ownership of a leaked value, no live read
\* guard pins a buffer that holds an alias of it, and none does later; from the
\* return of the one synchronize on, for as long as the closure lives, this holds
\* for every leaked value of the map.
C16_ReclaimUnreachable ==
    /\ [](Reachable \cap owned = {})
    /\ [](wpc = "reclaimer" => Reachable \cap LeakedFamilies = {})
    /\ [][\A f \in owned' \ owned : f \notin Reachable /\ f \notin Reachable']_vars

\* C16 witness: a reclaimer closure has reclaimed one value and can reclaim another,
\* while a read guard is alive and the buffer the writer would write next still
\* holds an alias of a reclaimed value
C16_Witness ==
    /\ wpc = "reclaimer"
    /\ OwnLeaked # {}
    /\ LiveSlots # {}
    /\ owned \cap Families(maps[writer_map]) # {}

\* a Leaked of another map was passed in this step
MismatchedCall == \E l \in leaked \ leaked' : l.handle_uid # uid

\* C18: a call of the reclaimer closure or of drop_lazily with a Leaked of another
\* map panics and leaves the buffers and the log as they were; the value of the
\* other map is never owned, dropped or logged.
C18_ForeignLeakedPanics ==
    /\ [][MismatchedCall =>
             /\ mismatch'
             /\ maps' = maps
             /\ operations' = operations
             /\ owned' = owned /\ dropped' = dropped /\ lazy' = lazy
         ]_vars
    /\ [](/\ ValueFamily(ForeignValue) \notin Destroyed
          /\ ForeignValue \notin lazy
          /\ \A i \in 1..Len(operations) : operations[i].vid # ForeignValue)

\* C18 witness: drop_lazily has panicked in a write guard whose log is not empty
C18_Witness ==
    /\ mismatch
    /\ wpc = "guard"
    /\ operations # <<>>
    /\ nops = MaxOps


\* Drop for Core runs in the drop of the last handle (the Arc's count reaches zero)
DropFairness == WF_vars(Core_drop)

FairLeakSpec == LeakSpec /\ DropFairness

\* every handle of the map is eventually dropped (and with it every guard, which
\* borrows its handle)
AllDropped == <>(wpc = "dropped" /\ Registered = {})
\* every value passed to drop_lazily has been dropped
LazyDropped == \A v \in lazy : ValueFamily(v) \in dropped

\* C17: a leaked value passed to drop_lazily is dropped: at a later log replay or,
\* every handle and guard being dropped, at the destruction of the core; it is
\* dropped once, and not while a read guard can reach it.
C17_LazyDropHappensOnce ==
    /\ AllDropped => (~LazyDropped ~> LazyDropped)
    /\ [](twice = {})
    /\ [](reachDrop = {})
    /\ [](\A v \in lazy : /\ ValueFamily(v) \notin owned
                          /\ ValueFamily(v) \in dropped => ValueFamily(v) \notin Reachable)

\* C17 witness: a log replay (not the destruction of the core) has dropped a value
\* passed to drop_lazily, while a read guard is alive
C17_Witness ==
    /\ wpc = "guard"
    /\ ~coreDropped
    /\ LiveSlots # {}
    /\ \E v \in lazy : ValueFamily(v) \in dropped


\* ------------------------------------------------------------ the count field

\* one guard more than the count field can hold, and the one whose increment aborts
MaxHeld == COUNT_MASK + 2

\* ReadHandle::guard, for a guard the reader never drops (it keeps it, or forgets
\* it with mem::forget): the same fetch_add, and no drop to follow
guard_forget(h) ==
    /\ ~aborted
    /\ hst[h] = "reg"
    /\ held[h] < MaxHeld
    /\ LET old_value == refcounts[h]
       IN /\ refcounts' = [refcounts EXCEPT ![h] = increment(old_value)]
          /\ aborted' = increment_aborts(old_value)
          /\ held' = [held EXCEPT ![h] = IF increment_aborts(old_value) THEN @ ELSE @ + 1]
    /\ UNCHANGED <<residual, hst, parker, token, writer_map, maps, replay, operations,
                   wpc, wcall, acc, pending, nops, nextVid, guards, shadow, hist, bufVer,
                   dropped, reachDrop, pubSnap, evicted, leaked, owned, twice, lazy,
                   mismatch, coreDropped>>

\* A program whose one reader also keeps guards for good, and whose writer publishes
\* empty write guards
CountNext ==
    \/ \E h \in Handles : guard_forget(h)
    \/ \E h \in Handles : ReadHandle_guard(h)
    \/ \E s \in Slots : ReadGuard_drop(s)
    \/ \E s \in Slots : release_residual(s)
    \/ \E s \in Slots : release_residual_store(s)
    \/ \E s \in Slots : Parker_unpark(s)
    \/ Core_synchronize("guard")
    \/ Parker_write_sync
    \/ synchronize_fetch_add
    \/ synchronize_store
    \/ park_wake
    \/ park_spurious
    \/ park_load
    \/ WriteGuard_drop
    \/ \E h \in Handles : publish_swap(h)
    \/ publish_fetch_add

CountSpec == Init /\ [][CountNext]_vars

\* the guards of a handle that exist: the live ones and those never dropped
GuardsOf(h) == held[h] + Cardinality({s \in Slots : Live(s) /\ HandleOf(s) = h})

\* C19 (as claimed): increment aborts when the fetched count is at its maximum
\* COUNT_MASK, so a read handle never has more than COUNT_MASK guards and the count
\* never carries into the sentinel bit while the process runs.
C19_AbortAtMaxCount ==
    ~aborted => \A h \in Registered : /\ GuardsOf(h) <= COUNT_MASK
                                      /\ ~increment_aborts(refcounts[h])


\* ------------------------------------------------------------ nested read guards

\* two live guards of one read handle
Nested(s, t) == s # t /\ Live(s) /\ Live(t) /\ HandleOf(s) = HandleOf(t)

Cloned(h) == hst[h] = "new" /\ hst'[h] = "reg"

\* C21: a read handle cloned after a guard was acquired from the original hands its
\* guards a publish prefix at least as long as that guard's: at the clone the new
\* handle stands at a prefix no shorter than the one any handle stands at and any
\* guard was acquired on, it never goes back, and each of its guards gets the
\* prefix it stands at; a clone does not overlap the locked part of a publish.
C21_CloneNotBehindOriginal ==
    [][\A h \in Handles :
          /\ Cloned(h) =>
                /\ LockFree
                /\ NextPrefix(h)' = PubCount
                /\ \A x \in Registered : NextPrefix(h)' >= NextPrefix(x)
                /\ \A t \in Slots : guards[t].st # "none" => NextPrefix(h)' >= guards[t].pre
          /\ (hst[h] = "reg" /\ hst'[h] = "reg") => NextPrefix(h)' >= NextPrefix(h)
          /\ \A s \in Slots : Acquired(s, h) => /\ guards'[s].pre = NextPrefix(h)
                                                /\ View(s)' = Hist(guards'[s].pre)
      ]_vars

\* C21 witness: a guard of the original handle is alive on the prefix before the
\* last publish, and a guard of the clone is alive on the published one
C21_Witness ==
    \E s, t \in LiveSlots :
        /\ HandleOf(s) = 1
        /\ HandleOf(t) = 2
        /\ guards[s].pre < guards[t].pre
        /\ View(s) # View(t)

\* ------------------------------------------------------------ absent keys

\* the step is a call of replace or remove on key
LookupCall(key) == WriteGuard_replace(key) \/ WriteGuard_remove(key)

\* C22: remove or replace on a key the writer's buffer has no entry for returns
\* None (no Evicted is made), appends nothing to the operation log and leaves both
\* buffers as they are; replace does not call the supplied function, so no new
\* value comes into being.
C22_AbsentKeyIsNoOp ==
    [][\A key \in Keys :
          (LookupCall(key) /\ maps[writer_map][key] = NoEntry)
              => /\ evicted' = evicted
                 /\ operations' = operations
                 /\ maps' = maps
                 /\ nextVid' = nextVid
                 /\ shadow' = shadow
      ]_vars

\* C22 witness: in a write guard after two publishes every call was made on an
\* absent key: the buffer is empty, the log is empty and nothing was returned
C22_Witness ==
    /\ wpc = "guard"
    /\ PubCount >= 2
    /\ nops = MaxOps
    /\ operations = <<>>
    /\ evicted = {}
    /\ nextVid > 1
    /\ maps[writer_map] = EmptyMap

\* ------------------------------------------------------------ side bits

\* C23: whenever publish does not hold the refcounts lock, the side bit of every
\* registered refcount is writer_map.other(): a handle registered at any time
\* (between two publishes, while the log is replayed or a write guard exists)
\* starts there, and a guard acquired in such a state, the first of its handle or
\* not, reads the buffer that is not the writer's.
C23_SideBitIsReaderSide ==
    /\ [](LockFree => \A h \in Registered : SideBit(h) = other(writer_map))
    /\ [][\A h \in Handles :
             /\ Cloned(h) => SideBit(h)' = other(writer_map)
             /\ \A s \in Slots :
                   (Acquired(s, h) /\ LockFree) => guards'[s].idx = other(writer_map)
         ]_vars

\* C23 witness: a handle registered after the first publish has a guard, acquired
\* while the write guard exists, on the buffer that is not the writer's
C23_Witness ==
    /\ wpc = "guard"
    /\ nops >= 1
    /\ PubCount >= 1
    /\ \E s \in LiveSlots : /\ HandleOf(s) = 2
                           /\ guards[s].pre = PubCount
                           /\ guards[s].idx = other(writer_map)

\* ------------------------------------------------------------ residual guards

\* publish swaps the refcount of handle h in this step
Swapped(h) == wpc = "pub_swap" /\ h \in pending /\ h \notin pending'
\* a publish has swapped the refcount of its handle since guard s was acquired
SwappedSince(s) == NextPrefix(HandleOf(s)) > guards[s].pre
\* the step is the fetch_sub of guard s on its refcount
Decremented(s) == Live(s) /\ ~Live(s)'
\* the step is the fetch_sub of guard s on residual
Released(s) == guards[s].st = "release" /\ guards'[s].st # "release"

\* C24: the drop of a read guard calls release_residual exactly if a publish has
\* swapped the refcount of its handle between the guard's increment and its
\* decrement (the prefix a handle stands at moves exactly in the swaps of its
\* refcount); the call decrements residual once, and residual is decremented by
\* nothing else. A guard acquired after the swap ends its drop with the
\* decrement, whatever the order in which the guards of the handle are dropped.
C24_ReleaseIffSwapped ==
    [][/\ \A h \in Handles :
             (hst[h] = "reg" /\ hst'[h] = "reg")
                 => (Swapped(h) <=> NextPrefix(h)' > NextPrefix(h))
       /\ \A s \in Slots :
             /\ Decremented(s) =>
                   /\ SwappedSince(s) => guards'[s].st = "release"
                   /\ ~SwappedSince(s) => guards'[s] = NoGuard
             /\ Released(s) =>
                   /\ residual' = WrapIsize(residual - 1)
                   /\ guards'[s].st \in {"store", "none"}
             /\ guards'[s].st = "release" => (Decremented(s) \/ guards[s] = guards'[s])
       /\ (residual' = WrapIsize(residual - 1) /\ wpc' = wpc)
             => \E s \in Slots : Released(s)
      ]_vars

\* C24 witness: of two guards of one handle the older one, acquired before the swap,
\* is about to call release_residual, while the newer one was dropped without, or
\* is still alive
C24_Witness ==
    \E s \in Slots :
        /\ guards[s].st = "release"
        /\ guards[s].pre < PubCount
        /\ \E t \in LiveSlots : HandleOf(t) = HandleOf(s) /\ guards[t].pre = PubCount

\* ------------------------------------------------------------ residual

\* the writer has added isize::MIN to residual in synchronize, and residual was not
\* reset to 0 since
ParkedFlag == wpc \in {"sync_store", "park", "park_load"} /\ residual # 0
\* publish is between its first swap_maps and its fetch_add on residual
InPublish == wpc \in {"pub_swap", "pub_add"}
\* the read guards that were alive when the last publish swapped their refcount and
\* have not performed the fetch_sub of release_residual
ResidualGuards ==
    {s \in Slots : (Live(s) /\ SwappedSince(s)) \/ guards[s].st = "release"}

\* C25 (as claimed): in every state in which the writer has not set the parked
\* flag, residual is >= 0 and is the number of residual guards.
C25_ResidualCountsGuards ==
    ~ParkedFlag => /\ residual >= 0
                   /\ residual = Cardinality(ResidualGuards)

\* C25 (amended): outside publish and without the parked flag, residual is >= 0 and
\* is the number of residual guards; inside publish, where the counts returned by
\* swap_maps are summed in initial_residual and added to residual only after the
\* loop, residual + initial_residual is that number, and residual itself is minus
\* the number of guards that have released since the swap of their refcount.
C25_ResidualCountsGuardsAfterPublish ==
    /\ (~ParkedFlag /\ ~InPublish) =>
          /\ residual >= 0
          /\ residual = Cardinality(ResidualGuards)
          /\ acc = 0
    /\ InPublish =>
          /\ residual <= 0
          /\ residual + acc = Cardinality(ResidualGuards)

\* C25 witness: publish has swapped a refcount with two guards and has not yet
\* added the sum to residual; one of the guards has released, so residual is -1
C25_Witness ==
    /\ wpc = "pub_add"
    /\ acc = 2
    /\ residual = 0 - 1
    /\ Cardinality(ResidualGuards) = 1

\* ------------------------------------------------------------ async synchronize

AllButWriter == <<refcounts, hst, writer_map, maps, replay, operations, acc, pending,
                  nops, nextVid, guards, shadow, hist, bufVer, dropped, reachDrop,
                  pubSnap, evicted, leaked, owned, twice, lazy, mismatch, held,
                  coreDropped, aborted>>

\* Synchronize::poll with waiting = false (the first poll of the future that
\* AsyncWriteHandle::guard awaits): the load of residual
Synchronize_poll(call) ==
    /\ ~aborted
    /\ wpc = "idle"
    /\ call = "guard" => PubCount < MaxPub
    /\ IF must_wait(residual)
       THEN /\ wpc' = "async_reg"
            /\ wcall' = call
       ELSE /\ wpc' = AfterSync(call)
            /\ wcall' = "none"
    /\ UNCHANGED <<residual, parker, token>>
    /\ UNCHANGED AllButWriter

\* Parker::write_async: the waker of the polling task is registered
Parker_write_async ==
    /\ ~aborted
    /\ wpc = "async_reg"
    /\ parker' = "Async"
    /\ guards' = (IF parker = "Async" THEN guards ELSE overwrite(guards))
    /\ wpc' = "async_add"
    /\ UNCHANGED <<residual, token, wcall>>
    /\ UNCHANGED <<refcounts, hst, writer_map, maps, replay, operations, acc, pending,
                   nops, nextVid, shadow, hist, bufVer, dropped, reachDrop,
                   pubSnap, evicted, leaked, owned, twice, lazy, mismatch, held,
                   coreDropped, aborted>>

\* Synchronize::poll: residual.fetch_add(isize::MIN); waiting = true and
\* Poll::Pending when the old value is not 0
poll_fetch_add ==
    /\ ~aborted
    /\ wpc = "async_add"
    /\ residual' = WrapIsize(residual + IsizeMin)
    /\ wpc' = (IF must_park(residual) THEN "pending" ELSE "async_store")
    /\ UNCHANGED <<parker, token, wcall>>
    /\ UNCHANGED AllButWriter

\* Synchronize::poll: the else branch, residual.store(0), then Poll::Ready
poll_store ==
    /\ ~aborted
    /\ wpc = "async_store"
    /\ residual' = 0
    /\ wpc' = AfterSync(wcall)
    /\ wcall' = "none"
    /\ UNCHANGED <<parker, token>>
    /\ UNCHANGED AllButWriter

\* the task is polled because its waker was woken; Parker::update_async
poll_woken ==
    /\ ~aborted
    /\ wpc = "pending"
    /\ token
    /\ token' = FALSE
    /\ wpc' = "poll_load"
    /\ UNCHANGED <<residual, parker, wcall>>
    /\ UNCHANGED AllButWriter

\* the task is polled for another reason (another future of the task is ready)
poll_spurious ==
    /\ ~aborted
    /\ wpc = "pending"
    /\ ~token
    /\ wpc' = "poll_load"
    /\ UNCHANGED <<residual, parker, token, wcall>>
    /\ UNCHANGED AllButWriter

\* Synchronize::poll with waiting = true: the load of residual
poll_load ==
    /\ ~aborted
    /\ wpc = "poll_load"
    /\ IF park_done(residual)
       THEN /\ wpc' = AfterSync(wcall)
            /\ wcall' = "none"
       ELSE /\ wpc' = "pending"
            /\ UNCHANGED wcall
    /\ UNCHANGED <<residual, parker, token>>
    /\ UNCHANGED AllButWriter

\* the Synchronize future (or the future of AsyncWriteHandle::guard that holds it)
\* is dropped while it is pending; it has no Drop implementation
Synchronize_drop ==
    /\ ~aborted
    /\ wpc = "pending"
    /\ wpc' = "idle"
    /\ wcall' = "none"
    /\ UNCHANGED <<residual, parker, token>>
    /\ UNCHANGED AllButWriter

\* A program with one read handle whose writer takes its write guards through
\* WriteHandle::guard or, after into_async, through AsyncWriteHandle::guard, and
\* may drop a pending future
AsyncNext ==
    \/ \E h \in Handles : ReadHandle_guard(h)
    \/ \E s \in Slots : ReadGuard_drop(s)
    \/ \E s \in Slots : release_residual(s)
    \/ \E s \in Slots : release_residual_store(s)
    \/ \E s \in Slots : Parker_unpark(s)
    \/ Core_synchronize("guard")
    \/ Parker_write_sync
    \/ synchronize_fetch_add
    \/ synchronize_store
    \/ park_wake
    \/ park_spurious
    \/ park_load
    \/ Synchronize_poll("guard")
    \/ Parker_write_async
    \/ poll_fetch_add
    \/ poll_store
    \/ poll_woken
    \/ poll_spurious
    \/ poll_load
    \/ Synchronize_drop
    \/ WriteGuard_drop
    \/ \E h \in Handles : publish_swap(h)
    \/ publish_fetch_add

AsyncSpec == Init /\ [][AsyncNext]_vars

\* C26 (as claimed): when the writer loads residual after thread::park has returned,
\* or in a poll of a waiting Synchronize future, the value is 0 or negative: the
\* assertions `residual < 0` of Core::synchronize and Synchronize::poll hold.
C26_LoadedResidualNotPositive ==
    wpc \in {"park_load", "poll_load"} => residual <= 0

\* ------------------------------------------------------------ the wake-up

\* release_residual of guard s observes isize::MIN + 1 in this step
Observed(s) == guards[s].st = "release" /\ guards'[s].st = "store"
\* guard s calls Parker::unpark in this step
Unparks(s) == guards[s].st \in {"unpark", "raced"} /\ guards'[s].st = "none"
\* the writer is in the park loop of synchronize
Parking == wpc \in {"park", "park_load"}
\* the readers that observed isize::MIN + 1 and have not finished Parker::unpark
Unparkers == {s \in Slots : guards[s].st \in {"store", "unpark", "raced"}}

\* no residual guard comes into being while the writer is in the park loop, and only
\* the reader that released the last residual guard of a parked writer observes
\* isize::MIN + 1: at most one per synchronize call
OneObserver ==
    [][/\ (Parking /\ Parking') => ResidualGuards' \subseteq ResidualGuards
       /\ \A s \in Slots :
             Observed(s) => /\ Parking
                            /\ ParkedFlag
                            /\ ResidualGuards = {s}
                            /\ ResidualGuards' = {}
                            /\ residual' = IsizeMin
      ]_vars

ReaderOrder ==
    [][\A s \in Slots :
          /\ Observed(s) => /\ Parking
                            /\ residual = IsizeMin + 1
                            /\ residual' = IsizeMin
                            /\ guards[s].idx = writer_map
          /\ (guards[s].st = "store" /\ guards'[s] # guards[s])
                => (residual = IsizeMin /\ residual' = 0 /\ guards'[s].st = "unpark")
          /\ Unparks(s) => /\ guards[s].st = "unpark" => token' = (parker # "None")
                           /\ guards'[s] = NoGuard
      ]_vars

\* the writer's side: with a residual guard left at its fetch_add it sets the flag
\* and parks, and it starts the replay or gets the write guard only on residual = 0
WriterOrder ==
    [][/\ (wpc = "sync_add" /\ wpc' # "sync_add" /\ ResidualGuards # {})
             => (wpc' = "park" /\ residual' = WrapIsize(residual + IsizeMin) /\ residual' < 0)
       /\ (~Mutating /\ Mutating') => (residual' = 0 /\ ResidualGuards = {})
      ]_vars

\* while the log is replayed and while the write guard exists, no read guard pins the
\* writer's buffer and residual has been reset
ReplayAfterReset ==
    Mutating => /\ ResidualGuards = {}
                /\ residual = 0
                /\ \A s \in Slots : guards[s].st # "store"
                /\ \A s \in LiveSlots : guards[s].idx # writer_map

\* C28 (as claimed): the writer sets the flag and parks, the reader's
\* release_residual takes residual from isize::MIN + 1 to isize::MIN, resets it to 0
\* and then unparks the writer, and only then, the unpark done, the writer
\* replays the log into the buffer the reader was pinning.
C28_ReplayAfterUnpark ==
    /\ ReaderOrder
    /\ WriterOrder
    /\ [](ReplayAfterReset /\ (Mutating => Unparkers = {}))

\* C28 (amended): the writer sets the flag and parks if a residual guard is left at
\* its fetch_add; the reader's release_residual takes residual from isize::MIN + 1
\* to isize::MIN and resets it to 0 before it unparks; the writer replays the log
\* into the buffer the reader was pinning only after the reader's decrement of its
\* refcount and the reset of residual to 0, but not always after the unpark.
C28_ReplayAfterReset ==
    /\ ReaderOrder
    /\ WriterOrder
    /\ []ReplayAfterReset

\* C28 witness: the writer replays the log into the buffer a reader was pinning; that
\* reader has reset residual and has not yet called unpark
C28_Witness ==
    /\ wpc = "flush"
    /\ \E s \in Slots : guards[s].st = "unpark" /\ guards[s].idx = writer_map

\* ------------------------------------------------------------ synchronize without readers

\* the writer enters synchronize in this step, from guard() or reclaimer()
Enters == wpc = "idle" /\ wpc' \notin {"idle", "dropped"}

\* C29: a synchronize entered with residual = 0 returns in the step of its load:
\* the writer is at once where its call continues (log replay, write guard,
\* reclaimer closure), residual stays 0, the parker and the park token are
\* untouched; a thread handle or a waker is registered, and residual is lowered by
\* more than the 1 of a reader other than by a reset to 0 (the flag is set), only
\* in calls that loaded a residual different from 0.
C29_SynchronizeNoOpOnZero ==
    [][/\ (Enters /\ residual = 0) =>
             /\ wpc' \in {"flush", "guard", "reclaimer"}
             /\ ~InSynchronize'
             /\ residual' = 0
             /\ parker' = parker
             /\ token' = token
       /\ (wpc' \in {"sync_reg", "async_reg"} /\ wpc' # wpc) => residual # 0
       /\ parker' # parker => wpc \in {"sync_reg", "async_reg"}
       /\ (residual' < residual - 1 /\ residual' # 0) => wpc \in {"sync_add", "async_add"}
      ]_vars

\* C29 witness: after a publish, with a read guard alive, the writer has got its next
\* write guard and no thread handle was ever registered
C29_Witness ==
    /\ wpc = "guard"
    /\ PubCount >= 2
    /\ parker = "None"
    /\ residual = 0
    /\ LiveSlots # {}

\* ------------------------------------------------------------ the late flag

\* the writer's fetch_add(isize::MIN) has returned 0: the flag is set and the writer
\* is about to reset residual
LateFlag == wpc = "sync_store"

\* C30: when the last residual reader has released between the writer's first load
\* and its fetch_add(isize::MIN), the fetch_add returns 0 and the writer does not
\* park: its next step stores 0 and returns from synchronize. While the flag of
\* such a call is set no residual guard exists, so no release_residual runs and
\* no reader observes the flag; residual is changed by the writer's store only.
C30_NoParkWhenLastReaderLeftEarly ==
    /\ [](LateFlag => /\ residual = IsizeMin
                      /\ ResidualGuards = {}
                      /\ \A s \in Slots : guards[s].st \notin {"release", "store"})
    /\ [][/\ (wpc = "sync_add" /\ wpc' # wpc /\ residual = 0)
                => (LateFlag' /\ residual' = IsizeMin /\ token' = token)
          /\ (wpc = "sync_add" /\ wpc' # wpc /\ residual # 0) => wpc' = "park"
          /\ LateFlag =>
                /\ residual' # residual => (residual' = 0 /\ wpc' # wpc)
                /\ wpc' # wpc => /\ residual' = 0
                                 /\ wpc' = AfterSync(wcall)
                                 /\ ~InSynchronize'
                /\ \A s \in Slots : ~Released(s) /\ ~Observed(s)
         ]_vars

\* C30 witness: the writer registered its thread for a residual reader that released
\* before the fetch_add; the flag is set with nobody to observe it, and another
\* read guard is alive
C30_Witness ==
    /\ LateFlag
    /\ parker = "Sync"
    /\ residual = IsizeMin
    /\ PubCount >= 1
    /\ LiveSlots # {}

\* ------------------------------------------------------------ the parker at the unpark

\* the synchronize call whose flag guard s has observed is the one that waits for the
\* guards of publish pre + 1; it is the only call that parks at that publish count
ObservedCall(s) == guards[s].pre + 1

\* C31 (as claimed): when a reader calls unpark from release_residual, the parker
\* holds the handle the writer registered in the synchronize call the reader has
\* observed, and the writer is still waiting in that call; the parker is not None.
C31_UnparkFindsWaitingWriter ==
    /\ [](Unparkers # {} => parker # "None")
    /\ [][\A s \in Slots :
             Unparks(s) => /\ parker # "None"
                           /\ Parking
                           /\ PubCount = ObservedCall(s)
         ]_vars

\* C31 (amended): when a reader calls unpark from release_residual, the parker is
\* not None: the writer registered a handle in the call the reader has observed,
\* before it set the flag. The writer need not wait in that call any more: it can
\* have returned (thread::park returned spuriously after the reset of residual),
\* and the handle can be the one of a later call.
C31_UnparkFindsHandle ==
    /\ [](Unparkers # {} => parker # "None")
    /\ [][/\ \A s \in Slots :
                /\ Observed(s) => (parker # "None" /\ Parking /\ PubCount = ObservedCall(s))
                /\ Unparks(s) => /\ parker # "None"
                                 /\ PubCount >= ObservedCall(s)
                                 /\ guards[s].st = "unpark" => token'
          /\ parker # "None" => parker' # "None"
         ]_vars

\* C31 witness: a reader is about to call unpark for a call the writer has left; the
\* writer has published again and has registered its thread in the next call
C31_Witness ==
    /\ wpc = "sync_add"
    /\ \E s \in Slots : guards[s].st = "raced" /\ PubCount = ObservedCall(s) + 1

\* ------------------------------------------------------------ the buffers after the replay

\* WriteHandle::guard returns the write guard: synchronize has returned and
\* flush_operations has drained the log into the writer's buffer
GuardAcquired == wpc # "guard" /\ wpc' = "guard"

\* one iteration of the replay: flush_operations takes an entry from the log
ReplayStep == wpc = "flush" /\ operations' # operations

\* C32: immediately after WriteHandle::guard has replayed the operation log, both
\* buffers hold the same entries (those of the last published state) and the log
\* is empty, whatever write guards came before.
C32_BuffersEqualAfterReplay ==
    [][/\ GuardAcquired => /\ maps'[First] = maps'[Second]
                           /\ Content(maps'[writer_map']) = Hist(PubCount)
                           /\ operations' = <<>>
       /\ ReplayStep => /\ operations' = Tail(operations)
                        /\ maps'[other(writer_map)] = maps[other(writer_map)]
      ]_vars


\* ------------------------------------------------------------ preconditions of the replay

\* mem::forget on a write guard: Drop for WriteGuard does not run, so nothing is
\* published and the log keeps the entries of the guard; the borrow of the handle
\* ends
WriteGuard_forget ==
    /\ ~aborted
    /\ wpc = "guard"
    /\ wpc' = "idle"
    /\ nops' = 0
    /\ UNCHANGED <<residual, refcounts, hst, parker, token, writer_map, maps, replay,
                   operations, wcall, acc, pending, nextVid, guards, shadow, hist, bufVer,
                   dropped, reachDrop, pubSnap, evicted, leaked, owned, twice, lazy,
                   mismatch, held, coreDropped, aborted>>

\* A program with one read handle whose writer also forgets write guards
ForgetNext ==
    \/ \E h \in Handles : ReadHandle_guard(h)
    \/ \E s \in Slots : ReadGuard_drop(s)
    \/ \E s \in Slots : release_residual(s)
    \/ \E s \in Slots : release_residual_store(s)
    \/ \E s \in Slots : Parker_unpark(s)
    \/ Core_synchronize("guard")
    \/ Parker_write_sync
    \/ synchronize_fetch_add
    \/ synchronize_store
    \/ park_wake
    \/ park_spurious
    \/ park_load
    \/ guard_unchecked_flush
    \/ \E key \in Keys : WriteGuard_insert(key)
    \/ \E key \in Keys : WriteGuard_replace(key)
    \/ \E key \in Keys : WriteGuard_remove(key)
    \/ WriteGuard_drop
    \/ WriteGuard_forget
    \/ \E h \in Handles : publish_swap(h)
    \/ publish_fetch_add
    \/ \E h \in Handles : release_refcount(h)
    \/ WriteHandle_drop
    \/ Core_drop

ForgetSpec == Init /\ [][ForgetNext]_vars

\* C33: whenever the operation log is replayed, at write-guard acquisition or at
\* Core drop, each entry meets the precondition of the unchecked operation used for
\* it: InsertUnique finds its key absent from the target buffer, Replace and
\* Remove find it present.
C33_ReplayMeetsPreconditions ==
    /\ wpc = "flush" => op_precondition(Head(operations), maps[writer_map])
    /\ (wpc = "dropped" /\ ~coreDropped) => replay_sound(replay, maps[writer_map])

\* ------------------------------------------------------------ the destruction of the core

\* the alias families a log entry holds a member of
EntryFamilies(o) ==
    CASE o.op = "InsertUnique" -> {<<"k", o.kid>>, <<"v", o.vid>>}
      [] o.op = "Remove" -> {}
      [] OTHER -> {<<"v", o.vid>>}
LogFamilies(ops) == UNION {EntryFamilies(ops[i]) : i \in 1..Len(ops)}
\* the families the buffers and the two logs hold a member of
HeldFamilies ==
    Families(maps[First]) \cup Families(maps[Second])
        \cup LogFamilies(operations) \cup LogFamilies(replay)

\* Drop for Core runs
CoreDrops == ~coreDropped /\ coreDropped'
\* Drop for WriteHandle has run, Drop for Core has not
BetweenDrops == wpc = "dropped" /\ ~coreDropped

\* C34: the write handle is dropped with a non-empty log and the last handle later.
\* Core drop replays the log into the writer-side buffer and drains the other one:
\* every key and every value the map held that was not leaked is then dropped,
\* once, and nothing is dropped twice. Read guards taken between the two drops
\* see the last published state.
C34_CoreDropDropsEachOnce ==
    /\ [](BetweenDrops =>
             /\ operations = <<>>
             /\ replay_sound(replay, maps[writer_map])
             /\ Content(maps[other(writer_map)]) = Hist(PubCount)
             /\ \A v \in Created :
                   ValueFamily(v) \in HeldFamilies \cup Destroyed \cup LeakedFamilies)
    /\ [](coreDropped => twice = {})
    /\ [][/\ CoreDrops =>
                /\ maps'[writer_map] = flush_operations(replay, maps[writer_map]).map
                /\ maps'[other(writer_map)] = EmptyMap
                /\ replay' = <<>>
                /\ HeldFamilies \subseteq (dropped' \cup owned \cup LeakedFamilies)
                /\ (dropped' \ dropped) \cap (dropped \cup owned \cup LeakedFamilies) = {}
          /\ \A s \in Slots, h \in Handles :
                (BetweenDrops /\ Acquired(s, h)) =>
                    Content(maps[guards'[s].idx]) = Hist(PubCount)
         ]_vars

\* ------------------------------------------------------------ the entry an Evicted names

\* the buffer the log will be replayed into: the readers' buffer while the write
\* guard is held, the writer's buffer once publish has flipped writer_map
ReplayTarget == maps[IF wpc = "guard" THEN other(writer_map) ELSE writer_map]

\* the buffer flush_operations finds when it reaches entry i of the log
RECURSIVE map_before(_, _, _)
map_before(ops, m, i) ==
    IF i = 1 THEN m ELSE map_before(Tail(ops), flush_one(Head(ops), m).map, i - 1)

\* the value entry i of the log evicts: the one its replay finds under its key
victim(ops, m, i) ==
    IF ops[i].op \in {"Replace", "Remove"} THEN map_before(ops, m, i)[ops[i].k].vid ELSE None

\* Evicted::leak is called on e
Leaks(e) ==
    /\ e \in evicted
    /\ e \notin evicted'
    /\ [value |-> e.value, handle_uid |-> uid] \in leaked'

\* C35: Evicted::leak sets the leaky flag of exactly the log entry whose operation
\* evicted that value, and of no other entry, also when further entries (drop_lazily
\* entries among them) were appended between the eviction and the call.
C35_LeakFlagsItsOwnEntry ==
    /\ [](\A e \in evicted :
             /\ e.operation + 1 \in 1..Len(operations)
             /\ victim(operations, ReplayTarget, e.operation + 1) = e.value
             /\ ~operations[e.operation + 1].leaky
             /\ \A d \in evicted : d.operation = e.operation => d = e)
    /\ [][\A e \in evicted :
             Leaks(e) =>
                /\ Len(operations') = Len(operations)
                /\ \A i \in 1..Len(operations) :
                      operations'[i] = IF i = e.operation + 1
                                       THEN [operations[i] EXCEPT !.leaky = TRUE]
                                       ELSE operations[i]
         ]_vars

\* C35 witness: a removal evicted a value, drop_lazily appended a Drop entry behind
\* it, and the evicted value is leaked: the Remove entry is flagged, the Drop entry
\* is not
C35_Witness ==
    /\ wpc = "guard"
    /\ Len(operations) = 2
    /\ operations[1].op = "Remove" /\ operations[1].leaky
    /\ operations[2].op = "Drop" /\ ~operations[2].leaky
    /\ evicted = {}
    /\ \E l \in OwnLeaked : l.value = maps[other(writer_map)][operations[1].k].vid

\* ------------------------------------------------------------ the sum of the counts

\* read handles of a program whose counts can sum up to more than isize::MAX
MaxSumHandles == 3
SumHandles == 1..MaxSumHandles

\* the state after construction, with room for MaxSumHandles read handles
SumInit ==
    /\ residual = 0
    /\ refcounts = [h \in SumHandles |->
                      IF h = 1 THEN RefCount_new(new_reader_side(Second)) ELSE NoRefCount]
    /\ hst = [h \in SumHandles |-> IF h = 1 THEN "reg" ELSE "new"]
    /\ parker = "None"
    /\ token = FALSE
    /\ writer_map = Second
    /\ maps = [i \in {First, Second} |-> EmptyMap]
    /\ replay = <<>>
    /\ operations = <<>>
    /\ wpc = "idle"
    /\ wcall = "none"
    /\ acc = 0
    /\ pending = {}
    /\ nops = 0
    /\ nextVid = 1
    /\ guards = [s \in Slots |-> NoGuard]
    /\ shadow = Content(EmptyMap)
    /\ hist = <<Content(EmptyMap)>>
    /\ bufVer = [i \in {First, Second} |-> 0]
    /\ dropped = {}
    /\ reachDrop = {}
    /\ pubSnap = NoSnap
    /\ evicted = {}
    /\ leaked = {}
    /\ owned = {}
    /\ twice = {}
    /\ lazy = {}
    /\ mismatch = FALSE
    /\ held = [h \in SumHandles |-> 0]
    /\ coreDropped = FALSE
    /\ aborted = FALSE

\* A program that clones read handles, whose readers keep their guards for good and
\* whose writer publishes empty write guards; nothing releases a guard, so a
\* synchronize that finds residual guards parks for good
SumNext ==
    \/ \E from \in SumHandles, h \in SumHandles : new_reader(from, h)
    \/ \E h \in SumHandles : guard_forget(h)
    \/ Core_synchronize("guard")
    \/ Parker_write_sync
    \/ synchronize_fetch_add
    \/ park_spurious
    \/ park_load
    \/ WriteGuard_drop
    \/ \E h \in SumHandles : publish_swap(h)
    \/ publish_fetch_add

SumSpec == SumInit /\ [][SumNext]_vars

\* publish has added the count of h to initial_residual
Summed(h) == wpc = "pub_swap" /\ h \in pending /\ h \notin pending'

\* C36: publish aborts the process whenever the sum of the counts swap_maps returns
\* exceeds isize::MAX, and otherwise adds exactly that sum to residual: a wrapped
\* total is never added to residual.
C36_PublishAbortsOnOverflow ==
    /\ [](~aborted => (0 <= acc /\ acc <= IsizeMax))
    /\ [][/\ \A h \in DOMAIN hst :
                Summed(h) =>
                    LET sum == acc + CountOf(refcounts[h])
                    IN IF sum > IsizeMax
                       THEN aborted'
                       ELSE ~aborted' /\ acc' = sum
          /\ (wpc = "pub_add" /\ wpc' = "idle") =>
                (residual' = residual + acc /\ IsizeMin <= residual' /\ residual' <= IsizeMax)
         ]_vars

\* ------------------------------------------------------------ the count field and the guards

\* C37: the count field of each registered refcount equals the number of live read
\* guards of its handle, and the value swap_maps returns equals the number of the
\* handle's guards alive at the swap; increment and decrement never change the
\* side bit, swap_maps never changes the count.
C37_CountFieldCountsGuards ==
    /\ [](~aborted => \A h \in Registered : CountOf(refcounts[h]) = GuardsOf(h))
    /\ [][\A h \in Registered :
             /\ Summed(h) => /\ swap_maps_count(refcounts[h]) = GuardsOf(h)
                             /\ CountOf(refcounts'[h]) = CountOf(refcounts[h])
                             /\ to_map_index(refcounts'[h]) = other(to_map_index(refcounts[h]))
             /\ (~Summed(h) /\ h \in Registered') =>
                   to_map_index(refcounts'[h]) = to_map_index(refcounts[h])
         ]_vars

\* ------------------------------------------------------------ a synchronize after a dropped future

\* the executor polls a task whose waker was woken, and a poll runs to its end
AsyncFairness ==
    /\ Fairness
    /\ WF_vars(Parker_write_async)
    /\ WF_vars(poll_fetch_add)
    /\ WF_vars(poll_store)
    /\ WF_vars(poll_woken)
    /\ WF_vars(poll_load)

FairAsyncSpec == AsyncSpec /\ AsyncFairness

\* the writer is inside a Synchronize future that is being polled or is pending
InSynchronizeFut == wpc \in {"async_reg", "async_add", "async_store", "pending", "poll_load"}

\* residual.fetch_add(isize::MIN) of Core::synchronize or Synchronize::poll
AddsFlag == wpc \in {"sync_add", "async_add"} /\ wpc' # wpc

\* the flag is added while it is set
AddedTwice == AddsFlag /\ residual < 0

\* the writer waits in thread::park and nothing is left that would wake it
ParkedForGood ==
    /\ wpc = "park"
    /\ ~token
    /\ \A s \in Slots : guards[s].st \in {"none", "live"}
    /\ \A s \in Slots : Live(s) => ~SwappedSince(s)

\* C38: a Synchronize future is dropped after it set the parked flag and a new
\* synchronize, sync or async, is started before the residual readers have
\* released. The flag is not added to residual a second time, and the new call
\* completes once those readers have dropped their guards: the last one resets
\* residual to 0 and wakes the writer.
C38_SynchronizeAfterDropCompletes ==
    /\ [][~AddedTwice]_vars
    /\ [](~ParkedForGood)
    /\ InSynchronize ~> ~InSynchronize
    /\ InSynchronizeFut ~> ~InSynchronizeFut

\* ---------------------------------------------------------------------------
\* the parker cell during an unpark
\* ---------------------------------------------------------------------------

\* the reader s is inside the unpark call that follows its store of 0
InUnpark(s) == guards[s].st \in {"unpark", "raced"}

\* the writer overwrites the parker cell
WritesParker == wpc \in {"sync_reg", "async_reg"} /\ wpc' \notin {"sync_reg", "async_reg"}

\* C39: the writer never overwrites the parker cell (Parker::write_sync of a later
\* synchronize call) while a reader that observed isize::MIN + 1 and stored 0 is still
\* inside its unpark call on that cell: no reader is ever inside an unpark call whose
\* cell has been overwritten, and no step of the writer that writes the cell is taken
\* while a reader is inside the call
C39_NoWriteDuringUnpark ==
    /\ \A s \in Slots : guards[s].st # "raced"
    /\ [][WritesParker /\ parker' = "Sync" => \A s \in Slots : ~InUnpark(s)]_vars

====
